---- MODULE Spec2Model ----
(***************************************************************************)
(* Model of prysm/qpoly.py: the Qbfs recurrence engines, the memoized      *)
(* coefficient generators g, h, f, the two shape caches (QBFSCache,        *)
(* QCONCache) and the sag builders (QPolySag1D, QBFSSag, QCONSag).         *)
(*                                                                         *)
(* Arrays are sequences over the flattened samples x samples grid.  P      *)
(* values are exact integers (the P recurrence has integer coefficients    *)
(* and the modelled grids are integer valued).  Q values involve sqrt(19)  *)
(* and the irrational constants g, h, f, so a Q value is kept as the term  *)
(* that computed it: which order, from which P value and which lower Q     *)
(* terms.                                                                  *)
(***************************************************************************)
EXTENDS Integers, Sequences, FiniteSets, TLC

\* ------------------------------------------------------------------ bounds
MaxOrder == 3
MaxCoefs == 2
\* g, h, f are called with the indices 0 .. MemoSmall at any time, and g with
\* growing indices, at most MemoStride above the highest one memoised, up to
\* MemoOver past the size of the memo (g calls h and f on the way).
MemoSmall == 0
MemoStride == 16
MemoOver == 0

\* lru_cache() is used with its default maxsize
LruMaxSize == 128

MemoTop == LruMaxSize + MemoOver

\* The recurrences are called directly with coordinate arrays of XLen elements
\* with values in -1 .. XMax, and with the grids of the cache.
XLen == 2
XMax == 2

Families == {"bfs", "con"}
Orders == 0 .. MaxOrder
SampleSet == {3}
RadiusSet == {1}
CoefValues == {0, 1}

\* ------------------------------------------------------------------ values
\* A value is None, a Python scalar, an array of integers or an array of Q terms.
None == [kind |-> "none", v |-> << >>]
Scalar(i) == [kind |-> "scalar", v |-> <<i>>]
Array(s) == [kind |-> "array", v |-> s]
QArray(s) == [kind |-> "qarray", v |-> s]
IsNone(a) == a.kind = "none"

\* element i of a value, a scalar being broadcast
At(a, i) == IF a.kind = "scalar" THEN a.v[1] ELSE a.v[i]

EmptyMap == [k \in {} |-> 0]
\* an assignment that rebinds the dict to the one new entry
Put_Alone(map, k, v) == [x \in {k} |-> v]

Put(map, k, v) == [x \in (DOMAIN map) \cup {k} |-> IF x = k THEN v ELSE map[x]]
Count(map, k) == IF k \in DOMAIN map THEN map[k] ELSE 0
Bump(map, k) == Put(map, k, Count(map, k) + 1)

\* ------------------------------------------------------------------ grid provider
\* coordinates.make_rho_phi_grid: samples x samples points on [-radius, radius]^2,
\* flattened row by row; the radial coordinate rho is kept by its square.
Linspace(samples, radius) ==
    [i \in 1 .. samples |->
        IF samples = 1 THEN 0 - radius
        ELSE (0 - radius) + ((2 * radius * (i - 1)) \div (samples - 1))]

make_rho_phi_grid(samples, radius) ==
    LET xs == Linspace(samples, radius)
    IN [p \in 1 .. (samples * samples) |->
          LET row == ((p - 1) \div samples) + 1
              col == ((p - 1) % samples) + 1
          IN [sq |-> (xs[col] * xs[col]) + (xs[row] * xs[row])]]

\* rho ** 2
Square(rho) == [p \in DOMAIN rho |-> rho[p].sq]

\* ------------------------------------------------------------------ sequencing
\* Statements run in order: Bind(v, LAMBDA x : e) is "x = v" followed by e.
Bind(v, F(_)) == CHOOSE r \in {F(x) : x \in {v}} : TRUE

\* ------------------------------------------------------------------ P recurrence
\* the largest of a set of nesting depths
Deepest(S) == CHOOSE a \in S : \A b \in S : a >= b

\* qbfs_recurrence_P returns the value, the orders it evaluated (one entry
\* per entry of the function body, nested calls included) and the nesting
\* depth of these evaluations (1 when it calls none).
RECURSIVE qbfs_recurrence_P(_, _, _, _, _)
\* a recurrence without the closed form of order 1: P(1) is taken from the
\* orders 0 and -1
qbfs_recurrence_P_NoFirst(n, x, Pnm1, Pnm2, recursion_coef) ==
    IF n <= 0 THEN [v |-> Scalar(2), ev |-> <<n>>, d |-> 1]
    ELSE
        Bind(IF IsNone(Pnm1)
             THEN qbfs_recurrence_P(n - 1, x, None, None, None)
             ELSE [v |-> Pnm1, ev |-> << >>, d |-> 0], LAMBDA r1 :
        Bind(IF IsNone(Pnm2)
             THEN qbfs_recurrence_P(n - 2, x, None, None, None)
             ELSE [v |-> Pnm2, ev |-> << >>, d |-> 0], LAMBDA r2 :
        [v |-> Array([p \in DOMAIN x |->
                        ((2 - (4 * x[p])) * At(r1.v, p)) - At(r2.v, p)]),
         ev |-> <<n>> \o r1.ev \o r2.ev,
         d |-> 1 + Deepest({r1.d, r2.d})]))

\* a recurrence that takes a supplied Pnm1 for Pnm2 as well
qbfs_recurrence_P_OneTerm(n, x, Pnm1, Pnm2, recursion_coef) ==
    IF n = 0 THEN [v |-> Scalar(2), ev |-> <<0>>, d |-> 1]
    ELSE IF n = 1 THEN
        [v |-> Array([p \in DOMAIN x |-> 6 - (8 * x[p])]), ev |-> <<1>>, d |-> 1]
    ELSE
        Bind(IF IsNone(Pnm1)
             THEN qbfs_recurrence_P(n - 1, x, None, None, None)
             ELSE [v |-> Pnm1, ev |-> << >>, d |-> 0], LAMBDA r1 :
        Bind(IF IsNone(Pnm2)
             THEN qbfs_recurrence_P(n - 2, x, None, None, None)
             ELSE [v |-> Pnm1, ev |-> << >>, d |-> 0], LAMBDA r2 :
        [v |-> Array([p \in DOMAIN x |->
                        ((2 - (4 * x[p])) * At(r1.v, p)) - At(r2.v, p)]),
         ev |-> <<n>> \o r1.ev \o r2.ev,
         d |-> 1 + Deepest({r1.d, r2.d})]))

qbfs_recurrence_P(n, x, Pnm1, Pnm2, recursion_coef) ==
    IF n = 0 THEN [v |-> Scalar(2), ev |-> <<0>>, d |-> 1]
    ELSE IF n = 1 THEN
        [v |-> Array([p \in DOMAIN x |-> 6 - (8 * x[p])]), ev |-> <<1>>, d |-> 1]
    ELSE
        Bind(IF IsNone(Pnm1)
             THEN qbfs_recurrence_P(n - 1, x, None, None, None)
             ELSE [v |-> Pnm1, ev |-> << >>, d |-> 0], LAMBDA r1 :
        Bind(IF IsNone(Pnm2)
             THEN qbfs_recurrence_P(n - 2, x, None, None, None)
             ELSE [v |-> Pnm2, ev |-> << >>, d |-> 0], LAMBDA r2 :
        Bind(IF IsNone(recursion_coef)
             THEN Array([p \in DOMAIN x |-> 2 - (4 * x[p])])
             ELSE recursion_coef, LAMBDA rc :
        [v |-> Array([p \in DOMAIN x |->
                        (At(rc, p) * At(r1.v, p)) - At(r2.v, p)]),
         ev |-> <<n>> \o r1.ev \o r2.ev,
         d |-> 1 + Deepest({r1.d, r2.d})])))

\* ------------------------------------------------------------------ g, h, f
\* The memo of an lru_cache()-decorated function: its keys, least recently
\* used first.  The wrapper answers a stored key and marks it most recent;
\* otherwise it runs the body and stores the key, dropping the least recently
\* used one when maxsize keys are held.
InMemo(keys, k) == \E i \in 1 .. Len(keys) : keys[i] = k
Touch(keys, k) == Append(SelectSeq(keys, LAMBDA e : e # k), k)
Insert(keys, k) ==
    IF InMemo(keys, k) THEN keys
    ELSE IF Len(keys) >= LruMaxSize THEN Append(Tail(keys), k)
    ELSE Append(keys, k)

EmptyMemo == [g |-> << >>, h |-> << >>, f |-> << >>]

\* Each generator takes the memo tables and returns them with the bodies it
\* executed, in order of entry.
RECURSIVE g_qbfs(_, _), h_qbfs(_, _), f_qbfs(_, _)
g_qbfs(n_minus_1, M) ==
    IF InMemo(M.g, n_minus_1)
    THEN [m |-> [M EXCEPT !.g = Touch(@, n_minus_1)], b |-> << >>]
    ELSE Bind(IF n_minus_1 = 0 THEN [m |-> M, b |-> << >>]
              ELSE Bind(g_qbfs(n_minus_1 - 1, M), LAMBDA r1 :
                   Bind(h_qbfs(n_minus_1 - 1, r1.m), LAMBDA r2 :
                   Bind(f_qbfs(n_minus_1, r2.m), LAMBDA r3 :
                   [m |-> r3.m, b |-> r1.b \o r2.b \o r3.b]))),
         LAMBDA body :
         [m |-> [body.m EXCEPT !.g = Insert(@, n_minus_1)],
          b |-> << <<"g", n_minus_1>> >> \o body.b])

\* h without its lru_cache wrapper: the body runs on every call
h_qbfs_Unwrapped(n_minus_2, M) ==
    Bind(f_qbfs(n_minus_2, M), LAMBDA body :
    [m |-> [body.m EXCEPT !.h = Insert(@, n_minus_2)],
     b |-> << <<"h", n_minus_2>> >> \o body.b])

h_qbfs(n_minus_2, M) ==
    IF InMemo(M.h, n_minus_2)
    THEN [m |-> [M EXCEPT !.h = Touch(@, n_minus_2)], b |-> << >>]
    ELSE Bind(f_qbfs(n_minus_2, M), LAMBDA body :
         [m |-> [body.m EXCEPT !.h = Insert(@, n_minus_2)],
          b |-> << <<"h", n_minus_2>> >> \o body.b])

f_qbfs(n, M) ==
    IF InMemo(M.f, n)
    THEN [m |-> [M EXCEPT !.f = Touch(@, n)], b |-> << >>]
    ELSE Bind(IF n = 0 \/ n = 1 THEN [m |-> M, b |-> << >>]
              ELSE Bind(g_qbfs(n - 1, M), LAMBDA r2 :
                   Bind(h_qbfs(n - 2, r2.m), LAMBDA r3 :
                   [m |-> r3.m, b |-> r2.b \o r3.b])),
         LAMBDA body :
         [m |-> [body.m EXCEPT !.f = Insert(@, n)],
          b |-> << <<"f", n>> >> \o body.b])

\* ------------------------------------------------------------------ Q recurrence
\* One element of a Q array: the term that computed it.  num is the integer the
\* term starts from (1, 13 - 16x, or P(n)); qs are the lower Q terms used, which
\* enter with g(n - 1), h(n - 2) and are divided by f(n).
Term(op, n, num, qs) == [op |-> op, n |-> n, num |-> num, qs |-> qs]

Given(v, M) ==
    [v |-> v, evP |-> << >>, evQ |-> << >>, m |-> M, b |-> << >>, d |-> 0]

\* qbfs_recurrence_Q returns the value, the P and Q orders evaluated, the memo
\* tables, the generator bodies executed and the nesting depth of the
\* recurrence evaluations.
RECURSIVE qbfs_recurrence_Q(_, _, _, _, _, _, _, _, _)
qbfs_recurrence_Q(n, x, Pn, Pnm1, Pnm2, Qnm1, Qnm2, recursion_coef, M) ==
    IF n = 0 THEN
        [v |-> QArray([p \in DOMAIN x |-> Term("ones", 0, 1, << >>)]),
         evP |-> << >>, evQ |-> <<0>>, m |-> M, b |-> << >>, d |-> 1]
    ELSE IF n = 1 THEN
        [v |-> QArray([p \in DOMAIN x |-> Term("q1", 1, 13 - (16 * x[p]), << >>)]),
         evP |-> << >>, evQ |-> <<1>>, m |-> M, b |-> << >>, d |-> 1]
    ELSE
        Bind(IF IsNone(Pnm2)
             THEN qbfs_recurrence_P(n - 2, x, None, None, recursion_coef)
             ELSE [v |-> Pnm2, ev |-> << >>, d |-> 0], LAMBDA p2 :
        Bind(IF IsNone(Pnm1)
             THEN qbfs_recurrence_P(n - 1, x, None, p2.v, recursion_coef)
             ELSE [v |-> Pnm1, ev |-> << >>, d |-> 0], LAMBDA p1 :
        Bind(IF IsNone(Pn)
             THEN qbfs_recurrence_P(n, x, p1.v, p2.v, recursion_coef)
             ELSE [v |-> Pn, ev |-> << >>, d |-> 0], LAMBDA p0 :
        Bind(IF IsNone(Qnm2)
             THEN qbfs_recurrence_Q(n - 2, x, p0.v, p1.v, p2.v, None, None,
                                    recursion_coef, M)
             ELSE Given(Qnm2, M), LAMBDA q2 :
        Bind(IF IsNone(Qnm1)
             THEN qbfs_recurrence_Q(n - 1, x, p0.v, p1.v, p2.v, None, q2.v,
                                    recursion_coef, q2.m)
             ELSE Given(Qnm1, q2.m), LAMBDA q1 :
        Bind(g_qbfs(n - 1, q1.m), LAMBDA rg :
        Bind(h_qbfs(n - 2, rg.m), LAMBDA rh :
        Bind(f_qbfs(n, rh.m), LAMBDA rf :
        [v |-> QArray([p \in DOMAIN x |->
                         Term("qrec", n, At(p0.v, p), <<q1.v.v[p], q2.v.v[p]>>)]),
         evP |-> p2.ev \o p1.ev \o p0.ev \o q2.evP \o q1.evP,
         evQ |-> <<n>> \o q2.evQ \o q1.evQ,
         m |-> rf.m,
         b |-> q2.b \o q1.b \o rg.b \o rh.b \o rf.b,
         d |-> 1 + Deepest({p2.d, p1.d, p0.d, q2.d, q1.d})]))))))))

\* ------------------------------------------------------------------ the caches
\* A cache in the middle of a call: its three stores, the memo tables of g, h, f
\* and the bookkeeping of what was evaluated: evP / evQ count the evaluations
\* of qbfs_recurrence_P / qbfs_recurrence_Q per key since the stores were last
\* emptied, gb counts the grid builds, bodies lists the generator bodies
\* executed by the call, err is the exception the call ended with ("" if none),
\* at is the nesting depth of the getter being executed and deep the largest
\* nesting depth of getter and recurrence calls reached so far.
NewCache == [Qs |-> EmptyMap, Ps |-> EmptyMap, grids |-> EmptyMap]

make_key(m, samples, rho_max) == <<m, samples, rho_max>>
\* key[1:]
KeyTail(key) == <<key[2], key[3]>>

BumpAll(map, orders, samples, rho_max) ==
    LET F[i \in 0 .. Len(orders)] ==
          IF i = 0 THEN map
          ELSE Bump(F[i - 1], make_key(orders[i], samples, rho_max))
    IN F[Len(orders)]

Ret(W, v) == [w |-> W, ret |-> v]

\* entering and leaving a getter; a recurrence call of depth d made by it
Enter(W) ==
    [W EXCEPT !.at = @ + 1, !.deep = IF W.at + 1 > @ THEN W.at + 1 ELSE @]
Leave(r) == [r EXCEPT !.w.at = @ - 1]
Nested(W, d) == IF W.at + d > W.deep THEN W.at + d ELSE W.deep

\* a get_grid that keys the grid by the sample count alone
QBFS_get_grid_BySamples(W0, samples, rho_max) ==
    Bind(Enter(W0), LAMBDA W : Leave(
    Bind(KeyTail(make_key(0 - 1, samples, 1)), LAMBDA key :
    IF key \in DOMAIN W.grids
    THEN Ret(W, W.grids[key])
    ELSE Bind(Array(Square(make_rho_phi_grid(samples, rho_max))), LAMBDA rho :
         Ret([W EXCEPT !.grids = Put(@, key, rho), !.gb = Bump(@, key)], rho)))))

QBFS_get_grid(W0, samples, rho_max) ==
    Bind(Enter(W0), LAMBDA W : Leave(
    Bind(KeyTail(make_key(0 - 1, samples, rho_max)), LAMBDA key :
    IF key \in DOMAIN W.grids
    THEN Ret(W, W.grids[key])
    ELSE Bind(Array(Square(make_rho_phi_grid(samples, rho_max))), LAMBDA rho :
         Ret([W EXCEPT !.grids = Put(@, key, rho), !.gb = Bump(@, key)], rho)))))

RECURSIVE QBFS_get_PBFS(_, _, _, _)
QBFS_get_PBFS(W0, m, samples, rho_max) ==
    Bind(Enter(W0), LAMBDA W : Leave(
    Bind(make_key(m, samples, rho_max), LAMBDA key :
    IF key \in DOMAIN W.Ps
    THEN Ret(W, W.Ps[key])
    ELSE Bind(QBFS_get_grid(W, samples, rho_max), LAMBDA rho :
         Bind(IF m > 2 THEN QBFS_get_PBFS(rho.w, m - 2, samples, rho_max)
              ELSE Ret(rho.w, None), LAMBDA Pnm2 :
         Bind(IF m > 2 THEN QBFS_get_PBFS(Pnm2.w, m - 1, samples, rho_max)
              ELSE Ret(Pnm2.w, None), LAMBDA Pnm1 :
         Bind(qbfs_recurrence_P(m, rho.ret.v, Pnm1.ret, Pnm2.ret, None), LAMBDA Pm :
         Ret([Pnm1.w EXCEPT
                !.Ps = Put(@, key, Pm.v),
                !.evP = BumpAll(@, Pm.ev, samples, rho_max),
                !.deep = Nested(Pnm1.w, Pm.d)],
             Pm.v))))))))

\* a getter that returns the array it computed without keeping it
StoreQ_NotStored(W, key, Qm) ==
    Ret([W EXCEPT
           !.evP = BumpAll(@, Qm.evP, key[2], key[3]),
           !.evQ = BumpAll(@, Qm.evQ, key[2], key[3]),
           !.memo = Qm.m,
           !.bodies = @ \o Qm.b,
           !.deep = Nested(W, Qm.d)],
        Qm.v)

\* the assignments after qbfs_recurrence_Q returned Qm
StoreQ(W, key, Qm) ==
    Ret([W EXCEPT
           !.Qs = Put(@, key, Qm.v),
           !.evP = BumpAll(@, Qm.evP, key[2], key[3]),
           !.evQ = BumpAll(@, Qm.evQ, key[2], key[3]),
           !.memo = Qm.m,
           !.bodies = @ \o Qm.b,
           !.deep = Nested(W, Qm.d)],
        Qm.v)

RECURSIVE QBFS_get_QBFS(_, _, _, _)
QBFS_get_QBFS(W0, m, samples, rho_max) ==
    Bind(Enter(W0), LAMBDA W : Leave(
    Bind(make_key(m, samples, rho_max), LAMBDA key :
    IF key \in DOMAIN W.Qs
    THEN Ret(W, W.Qs[key])
    ELSE Bind(QBFS_get_grid(W, samples, rho_max), LAMBDA rho :
         Bind(QBFS_get_PBFS(rho.w, m, samples, rho_max), LAMBDA Pm :
         Bind(IF m > 2 THEN QBFS_get_PBFS(Pm.w, m - 2, samples, rho_max)
              ELSE Ret(Pm.w, None), LAMBDA Pnm2 :
         Bind(IF m > 2 THEN QBFS_get_PBFS(Pnm2.w, m - 1, samples, rho_max)
              ELSE Ret(Pnm2.w, None), LAMBDA Pnm1 :
         Bind(IF m > 2 THEN QBFS_get_QBFS(Pnm1.w, m - 2, samples, rho_max)
              ELSE Ret(Pnm1.w, None), LAMBDA Qnm2 :
         Bind(IF m > 2 THEN QBFS_get_QBFS(Qnm2.w, m - 1, samples, rho_max)
              ELSE Ret(Qnm2.w, None), LAMBDA Qnm1 :
         Bind(qbfs_recurrence_Q(m, rho.ret.v, Pm.ret, Pnm1.ret, Pnm2.ret,
                                Qnm1.ret, Qnm2.ret, None, Qnm1.w.memo), LAMBDA Qm :
         StoreQ(Qnm1.w, key, Qm)))))))))))

\* QBFSCache.__call__
QBFS_call(W, m, samples, rho_max) == QBFS_get_QBFS(W, m, samples, rho_max)

QCON_get_grid(W0, samples, rho_max) ==
    Bind(Enter(W0), LAMBDA W : Leave(
    Bind(KeyTail(make_key(0 - 1, samples, rho_max)), LAMBDA key :
    IF key \in DOMAIN W.grids
    THEN Ret(W, W.grids[key])
    ELSE Bind(Square(make_rho_phi_grid(samples, rho_max)), LAMBDA rho2 :
         Bind(Array([p \in DOMAIN rho2 |-> (2 * rho2[p]) - 1]), LAMBDA rho :
         Ret([W EXCEPT !.grids = Put(@, key, rho), !.gb = Bump(@, key)], rho))))))

RECURSIVE QCON_get_PBFS(_, _, _, _)
QCON_get_PBFS(W0, m, samples, rho_max) ==
    Bind(Enter(W0), LAMBDA W : Leave(
    Bind(make_key(m, samples, rho_max), LAMBDA key :
    IF key \in DOMAIN W.Ps
    THEN Ret(W, W.Ps[key])
    ELSE Bind(QCON_get_grid(W, samples, rho_max), LAMBDA rho :
         Bind(IF m > 2 THEN QCON_get_PBFS(rho.w, m - 2, samples, rho_max)
              ELSE Ret(rho.w, None), LAMBDA Pnm2 :
         Bind(IF m > 2 THEN QCON_get_PBFS(Pnm2.w, m - 1, samples, rho_max)
              ELSE Ret(Pnm2.w, None), LAMBDA Pnm1 :
         Bind(qbfs_recurrence_P(m, rho.ret.v, Pnm1.ret, Pnm2.ret, None), LAMBDA Pm :
         Ret([Pnm1.w EXCEPT
                !.Ps = Put(@, key, Pm.v),
                !.evP = BumpAll(@, Pm.ev, samples, rho_max),
                !.deep = Nested(Pnm1.w, Pm.d)],
             Pm.v))))))))

\* For m > 2 the method looks up self.get_QBFS, which QCONCache does not
\* define: the call ends in AttributeError after the P terms were fetched.
QCON_get_QCON(W0, m, samples, rho_max) ==
    Bind(Enter(W0), LAMBDA W : Leave(
    Bind(make_key(m, samples, rho_max), LAMBDA key :
    IF key \in DOMAIN W.Qs
    THEN Ret(W, W.Qs[key])
    ELSE Bind(QCON_get_grid(W, samples, rho_max), LAMBDA rho :
         Bind(QCON_get_PBFS(rho.w, m, samples, rho_max), LAMBDA Pm :
         Bind(IF m > 2 THEN QCON_get_PBFS(Pm.w, m - 2, samples, rho_max)
              ELSE Ret(Pm.w, None), LAMBDA Pnm2 :
         Bind(IF m > 2 THEN QCON_get_PBFS(Pnm2.w, m - 1, samples, rho_max)
              ELSE Ret(Pnm2.w, None), LAMBDA Pnm1 :
         Bind(IF m > 2 THEN Ret([Pnm1.w EXCEPT !.err = "AttributeError"], None)
              ELSE Ret(Pnm1.w, None), LAMBDA Qnm2 :
         IF Qnm2.w.err # "" THEN Qnm2
         ELSE Bind(Ret(Qnm2.w, None), LAMBDA Qnm1 :
              Bind(qbfs_recurrence_Q(m, rho.ret.v, Pm.ret, Pnm1.ret, Pnm2.ret,
                                     Qnm1.ret, Qnm2.ret, None, Qnm1.w.memo), LAMBDA Qm :
              StoreQ(Qnm1.w, key, Qm)))))))))))

\* QCONCache.__call__
QCON_call(W, m, samples, rho_max) == QCON_get_QCON(W, m, samples, rho_max)

\* a clear() that leaves the Q arrays in place
clear_KeepsQs(C) == [C EXCEPT !.Ps = EmptyMap, !.grids = EmptyMap]

\* a clear() that forgets the grids
clear_KeepsGrids(C) == [C EXCEPT !.Qs = EmptyMap, !.Ps = EmptyMap]

\* clear(): three new empty dicts
clear(C) == [C EXCEPT !.Qs = EmptyMap, !.Ps = EmptyMap, !.grids = EmptyMap]

\* ndarray.nbytes: elements times the item size of a double
Footprint(a) == Len(a.v) * 8

RECURSIVE SumQKeys(_, _)
SumQKeys(C, keys) ==
    IF keys = {} THEN 0
    ELSE LET key == CHOOSE k \in keys : TRUE
         IN ((Footprint(C.Qs[key]) + Footprint(C.Ps[key]))
              + Footprint(C.grids[KeyTail(key)])) + SumQKeys(C, keys \ {key})

\* The nbytes property (the same text in both classes): the loop runs over
\* the keys of Qs.  A key missing from Ps or grids ends it in KeyError; a
\* stored P(0), the Python int 2, has no nbytes attribute and ends it in
\* AttributeError.
nbytes(C) ==
    IF \E key \in DOMAIN C.Qs :
          key \notin DOMAIN C.Ps \/ KeyTail(key) \notin DOMAIN C.grids
    THEN [n |-> 0, err |-> "KeyError"]
    ELSE IF \E key \in DOMAIN C.Qs : C.Ps[key].kind = "scalar"
    THEN [n |-> 0, err |-> "AttributeError"]
    ELSE [n |-> SumQKeys(C, DOMAIN C.Qs), err |-> ""]

\* config.chbackend_observers after import: QBFScache.clear, QCONcache.clear
chbackend_observers == <<"bfs", "con">>

\* ------------------------------------------------------------------ sag builders
\* A coefficient mapping is the dict self.coefs in insertion order: a sequence
\* of <<order, coefficient>> with distinct orders.
CoefKeys(coefs) == {coefs[i][1] : i \in 1 .. Len(coefs)}
CoefOf(coefs, term) ==
    coefs[CHOOSE i \in 1 .. Len(coefs) : coefs[i][1] = term][2]

\* sorted(self.coefs): the keys, ascending
RECURSIVE SortedSet(_)
SortedSet(S) ==
    IF S = {} THEN << >>
    ELSE LET lo == CHOOSE a \in S : \A b \in S : a <= b
         IN <<lo>> \o SortedSet(S \ {lo})

\* the keys as the dict iterates them: in insertion order
sorted_Insertion(coefs) == [i \in 1 .. Len(coefs) |-> coefs[i][1]]

sorted(coefs) == SortedSet(CoefKeys(coefs))

\* a loop without the test for zero
Skipped_Never(coef) == FALSE

\* "if coef == 0: continue"
Skipped(coef) == coef = 0

\* An element of phase: the products coef * Q added to 0 so far, in the order
\* they were added, and the window factors it was multiplied by.
Zeros(samples) == [p \in 1 .. (samples * samples) |-> [acc |-> << >>, win |-> << >>]]

\* phase += coef * Q
AddScaled(phase, coef, Q) ==
    [p \in DOMAIN phase |->
        [phase[p] EXCEPT !.acc = Append(@, [c |-> coef, t |-> Q.v[p]])]]

\* phase *= coef
Times(phase, coef) ==
    [p \in DOMAIN phase |-> [phase[p] EXCEPT !.win = Append(@, At(coef, p))]]

CacheCall(fam, W, term, samples) ==
    IF fam = "bfs" THEN QBFS_call(W, term, samples, 1)
    ELSE QCON_call(W, term, samples, 1)

CacheGrid(fam, W, samples) ==
    IF fam = "bfs" THEN QBFS_get_grid(W, samples, 1)
    ELSE QCON_get_grid(W, samples, 1)

\* The loop of QPolySag1D.build from position i of ordered_terms on; B is the
\* build so far (cache, phase, orders requested from the cache).  An exception
\* of the cache call ends the loop.
RECURSIVE build_loop(_, _, _, _, _, _)
build_loop(fam, coefs, samples, ordered_terms, i, B) ==
    IF i > Len(ordered_terms) \/ B.w.err # "" THEN B
    ELSE Bind(ordered_terms[i], LAMBDA term :
         Bind(CoefOf(coefs, term), LAMBDA coef :
         IF Skipped(coef)
         THEN build_loop(fam, coefs, samples, ordered_terms, i + 1, B)
         ELSE Bind(CacheCall(fam, B.w, term, samples), LAMBDA r :
              build_loop(fam, coefs, samples, ordered_terms, i + 1,
                  [w |-> r.w,
                   phase |-> IF r.w.err = "" THEN AddScaled(B.phase, coef, r.ret)
                             ELSE B.phase,
                   requests |-> Append(B.requests, term)]))))

\* QPolySag1D.build
QPolySag1D_build(fam, W, coefs, samples) ==
    build_loop(fam, coefs, samples, sorted(coefs), 1,
               [w |-> W, phase |-> Zeros(samples), requests |-> << >>])

\* QBFSSag.build and QCONSag.build (the same statements on their own cache):
\* super().build(), then the window r2 * (1 - r2) of the cached grid.
Sag_build(fam, W, coefs, samples) ==
    Bind(QPolySag1D_build(fam, W, coefs, samples), LAMBDA B :
    IF B.w.err # "" THEN B
    ELSE Bind(CacheGrid(fam, B.w, samples), LAMBDA r2 :
         Bind(Array([p \in DOMAIN r2.ret.v |-> r2.ret.v[p] * (1 - r2.ret.v[p])]),
              LAMBDA coef :
         [w |-> r2.w, phase |-> Times(B.phase, coef), requests |-> B.requests])))

\* ------------------------------------------------------------------ state
VARIABLES
    caches,   \* caches[fam]: the Qs, Ps and grids of QBFScache / QCONcache
    evP,      \* evP[fam][key]: evaluations of qbfs_recurrence_P since the last clear
    evQ,      \* evQ[fam][key]: evaluations of qbfs_recurrence_Q since the last clear
    gb,       \* gb[fam][grid key]: grid builds since the last clear
    memo,     \* the lru_cache tables of g_qbfs, h_qbfs, f_qbfs
    computed, \* the (generator, index) pairs whose body has run in this process
    last      \* the last call: what was asked, the cache before it, its outcome

vars == <<caches, evP, evQ, gb, memo, computed, last>>

\* The record of a call.  pre is the cache as the call found it; nev and ngb
\* are the recurrence evaluations and grid builds it made; coefs, phase and
\* requests are the sag object of a build(): its coefficient mapping, its
\* phase and the orders it asked the cache for; rerun are the generator
\* bodies the call executed although they had been executed before; x is the
\* coordinate array of a direct call of a recurrence; depth is the largest
\* nesting depth of getter and recurrence calls the call reached.
Called(op, fam, key, pre, ret, err, nev, ngb, bodies) ==
    [op |-> op, fam |-> fam, key |-> key, pre |-> pre, ret |-> ret, err |-> err,
     nev |-> nev, ngb |-> ngb, bodies |-> bodies,
     coefs |-> << >>, phase |-> << >>, requests |-> << >>, rerun |-> {},
     x |-> << >>, depth |-> 0]

Init ==
    /\ caches = [fam \in Families |-> NewCache]
    /\ evP = [fam \in Families |-> EmptyMap]
    /\ evQ = [fam \in Families |-> EmptyMap]
    /\ gb = [fam \in Families |-> EmptyMap]
    /\ memo = EmptyMemo
    /\ computed = {}
    /\ last = Called("init", "", <<0, 0, 0>>, NewCache, None, "", 0, 0, << >>)

\* the cache fam as a call finds it
World(fam) ==
    [Qs |-> caches[fam].Qs, Ps |-> caches[fam].Ps, grids |-> caches[fam].grids,
     evP |-> evP[fam], evQ |-> evQ[fam], gb |-> gb[fam],
     memo |-> memo, bodies |-> << >>, err |-> "", at |-> 0, deep |-> 0]

Total(map) ==
    LET RECURSIVE T(_)
        T(S) == IF S = {} THEN 0
                ELSE LET k == CHOOSE k \in S : TRUE IN map[k] + T(S \ {k})
    IN T(DOMAIN map)

SeqToSet(q) == {q[i] : i \in 1 .. Len(q)}

\* what a finished call leaves behind
Effects(fam, r) ==
    /\ caches' = [caches EXCEPT ![fam] =
                    [Qs |-> r.w.Qs, Ps |-> r.w.Ps, grids |-> r.w.grids]]
    /\ evP' = [evP EXCEPT ![fam] = r.w.evP]
    /\ evQ' = [evQ EXCEPT ![fam] = r.w.evQ]
    /\ gb' = [gb EXCEPT ![fam] = r.w.gb]
    /\ memo' = r.w.memo
    /\ computed' = computed \cup SeqToSet(r.w.bodies)

\* the bodies in b that had run before: in an earlier call, or earlier in b
Rerun(b) ==
    {b[i] : i \in {j \in 1 .. Len(b) :
                     b[j] \in computed \/ \E k \in 1 .. (j - 1) : b[k] = b[j]}}

Outcome(op, fam, key, r) ==
    [Called(op, fam, key, caches[fam], r.ret, r.w.err,
            ((Total(r.w.evP) + Total(r.w.evQ)) - Total(evP[fam])) - Total(evQ[fam]),
            Total(r.w.gb) - Total(gb[fam]),
            r.w.bodies)
       EXCEPT !.rerun = Rerun(r.w.bodies), !.depth = r.w.deep]

Commit(op, fam, key, r) ==
    /\ Effects(fam, r)
    /\ last' = Outcome(op, fam, key, r)

\* ------------------------------------------------------------------ cache calls
GetGrid(fam, samples, rho_max) ==
    /\ Commit("get_grid", fam, make_key(0 - 1, samples, rho_max),
              IF fam = "bfs" THEN QBFS_get_grid(World(fam), samples, rho_max)
              ELSE QCON_get_grid(World(fam), samples, rho_max))

GetP(fam, m, samples, rho_max) ==
    /\ Commit("get_P", fam, make_key(m, samples, rho_max),
              IF fam = "bfs" THEN QBFS_get_PBFS(World(fam), m, samples, rho_max)
              ELSE QCON_get_PBFS(World(fam), m, samples, rho_max))

GetQ(fam, m, samples, rho_max) ==
    /\ Commit("get_Q", fam, make_key(m, samples, rho_max),
              IF fam = "bfs" THEN QBFS_get_QBFS(World(fam), m, samples, rho_max)
              ELSE QCON_get_QCON(World(fam), m, samples, rho_max))

Evaluate(fam, m, samples, rho_max) ==
    /\ Commit("evaluate", fam, make_key(m, samples, rho_max),
              IF fam = "bfs" THEN QBFS_call(World(fam), m, samples, rho_max)
              ELSE QCON_call(World(fam), m, samples, rho_max))

\* a clear() that also empties the memo tables of g, h, f
Clear_ForgetsMemo(fam) ==
    /\ caches' = [caches EXCEPT ![fam] = clear(@)]
    /\ evP' = [evP EXCEPT ![fam] = EmptyMap]
    /\ evQ' = [evQ EXCEPT ![fam] = EmptyMap]
    /\ gb' = [gb EXCEPT ![fam] = EmptyMap]
    /\ last' = Called("clear", fam, <<0, 0, 0>>, caches[fam], None, "", 0, 0, << >>)
    /\ memo' = EmptyMemo
    /\ UNCHANGED computed

Clear(fam) ==
    /\ caches' = [caches EXCEPT ![fam] = clear(@)]
    /\ evP' = [evP EXCEPT ![fam] = EmptyMap]
    /\ evQ' = [evQ EXCEPT ![fam] = EmptyMap]
    /\ gb' = [gb EXCEPT ![fam] = EmptyMap]
    /\ last' = Called("clear", fam, <<0, 0, 0>>, caches[fam], None, "", 0, 0, << >>)
    /\ UNCHANGED <<memo, computed>>

\* A backend or precision change: config calls every registered observer.
ChBackend ==
    LET obs == SeqToSet(chbackend_observers)
    IN /\ caches' = [fam \in Families |->
                       IF fam \in obs THEN clear(caches[fam]) ELSE caches[fam]]
       /\ evP' = [fam \in Families |-> IF fam \in obs THEN EmptyMap ELSE evP[fam]]
       /\ evQ' = [fam \in Families |-> IF fam \in obs THEN EmptyMap ELSE evQ[fam]]
       /\ gb' = [fam \in Families |-> IF fam \in obs THEN EmptyMap ELSE gb[fam]]
       /\ last' = Called("chbackend", "", <<0, 0, 0>>, NewCache, None, "", 0, 0, << >>)
       /\ UNCHANGED <<memo, computed>>

Nbytes(fam) ==
    LET r == nbytes(caches[fam])
    IN /\ last' = Called("nbytes", fam, <<0, 0, 0>>, caches[fam], Scalar(r.n), r.err,
                         0, 0, << >>)
       /\ UNCHANGED <<caches, evP, evQ, gb, memo, computed>>

\* The client works on one family at a time: it calls a cache only while the
\* other one holds nothing (this bounds the interleavings that are explored).
Solo(fam) == \A other \in Families \ {fam} : caches[other] = NewCache

CacheNext ==
    \/ \E fam \in Families, samples \in SampleSet, rho_max \in RadiusSet :
          Solo(fam) /\ GetGrid(fam, samples, rho_max)
    \/ \E fam \in Families, m \in Orders, samples \in SampleSet, rho_max \in RadiusSet :
          Solo(fam) /\ GetP(fam, m, samples, rho_max)
    \/ \E fam \in Families, m \in Orders, samples \in SampleSet, rho_max \in RadiusSet :
          Solo(fam) /\ GetQ(fam, m, samples, rho_max)
    \/ \E fam \in Families, m \in Orders, samples \in SampleSet, rho_max \in RadiusSet :
          Solo(fam) /\ Evaluate(fam, m, samples, rho_max)
    \/ \E fam \in Families : Clear(fam)
    \/ ChBackend
    \/ \E fam \in Families : Solo(fam) /\ Nbytes(fam)

\* Constructing a sag object from keyword coefficients and building it.
Build(fam, coefs, samples) ==
    \E B \in {Sag_build(fam, World(fam), coefs, samples)} :
        /\ Effects(fam, Ret(B.w, None))
        /\ last' = [Outcome("build", fam, make_key(0 - 1, samples, 1), Ret(B.w, None))
                      EXCEPT !.coefs = coefs, !.phase = B.phase,
                             !.requests = B.requests]

\* the keyword coefficients a caller may pass: up to MaxCoefs distinct orders
CoefMappings ==
    UNION {{c \in [1 .. n -> Orders \X CoefValues] :
               \A i, j \in 1 .. n : i # j => c[i][1] # c[j][1]} : n \in 0 .. MaxCoefs}

\* A sag is built on a cache that direct calls have filled or a clear has
\* emptied; one build is not followed at once by another (a bound on the
\* exploration: a build leaves in the cache what its evaluate calls leave).
SagNext ==
    \/ \E fam \in Families, coefs \in CoefMappings, samples \in SampleSet :
          Solo(fam) /\ last.op # "build" /\ Build(fam, coefs, samples)
    \/ \E fam \in Families, m \in Orders, samples \in SampleSet :
          Solo(fam) /\ Evaluate(fam, m, samples, 1)
    \/ \E fam \in Families : Clear(fam)

\* ------------------------------------------------------------------ generator calls
\* the highest index a memo table holds
Top(keys) ==
    IF keys = << >> THEN 0
    ELSE CHOOSE a \in SeqToSet(keys) : \A b \in SeqToSet(keys) : a >= b

\* the next index of the climb
Climb ==
    IF Top(memo.g) + MemoStride > MemoTop THEN MemoTop
    ELSE Top(memo.g) + MemoStride

\* the indices a caller passes to generator fn
MemoArgs(fn) == (0 .. MemoSmall) \cup (IF fn = "g" THEN {Climb} ELSE {})

Generator(fn, n, M) ==
    IF fn = "g" THEN g_qbfs(n, M)
    ELSE IF fn = "h" THEN h_qbfs(n, M)
    ELSE f_qbfs(n, M)

\* a call g_qbfs(n), h_qbfs(n) or f_qbfs(n)
CallMemo(fn, n) ==
    \E r \in {Generator(fn, n, memo)} :
        /\ memo' = r.m
        /\ computed' = computed \cup SeqToSet(r.b)
        /\ last' = [Called(fn, "", <<n, 0, 0>>, NewCache, None, "", 0, 0, r.b)
                      EXCEPT !.rerun = Rerun(r.b)]
        /\ UNCHANGED <<caches, evP, evQ, gb>>

CallG(n) == CallMemo("g", n)
CallH(n) == CallMemo("h", n)
CallF(n) == CallMemo("f", n)

MemoNext ==
    \/ \E n \in MemoArgs("g") : CallG(n)
    \/ \E n \in MemoArgs("h") : CallH(n)
    \/ \E n \in MemoArgs("f") : CallF(n)

Next == CacheNext

SpecSag == Init /\ [][SagNext]_vars

SpecMemo == Init /\ [][MemoNext]_vars

\* ------------------------------------------------------------------ first calls
\* One call of g, h or f in a fresh process: the call asked for is drawn
\* initially and then made on the empty memo tables.
ColdArgs == 0 .. MemoStride

InitCold ==
    /\ caches = [fam \in Families |-> NewCache]
    /\ evP = [fam \in Families |-> EmptyMap]
    /\ evQ = [fam \in Families |-> EmptyMap]
    /\ gb = [fam \in Families |-> EmptyMap]
    /\ memo = EmptyMemo
    /\ computed = {}
    /\ \E fn \in {"g", "h", "f"}, n \in ColdArgs :
          last = Called("ask", fn, <<n, 0, 0>>, NewCache, None, "", 0, 0, << >>)

ColdG == last.op = "ask" /\ last.fam = "g" /\ CallG(last.key[1])
ColdH == last.op = "ask" /\ last.fam = "h" /\ CallH(last.key[1])
ColdF == last.op = "ask" /\ last.fam = "f" /\ CallF(last.key[1])

ColdNext == ColdG \/ ColdH \/ ColdF

SpecCold == InitCold /\ [][ColdNext]_vars

\* ------------------------------------------------------------------ getters and builds
\* Every operation on the stores in one behaviour: the getters, nbytes, the
\* sag builds (of mappings without zero coefficients, which are the ones that
\* reach the cache) and clear.
GrowMappings ==
    {c \in CoefMappings : \A i \in 1 .. Len(c) : ~Skipped(c[i][2])}

GrowNext ==
    \/ \E fam \in Families, samples \in SampleSet, rho_max \in RadiusSet :
          Solo(fam) /\ GetGrid(fam, samples, rho_max)
    \/ \E fam \in Families, m \in Orders, samples \in SampleSet, rho_max \in RadiusSet :
          Solo(fam) /\ GetP(fam, m, samples, rho_max)
    \/ \E fam \in Families, m \in Orders, samples \in SampleSet, rho_max \in RadiusSet :
          Solo(fam) /\ GetQ(fam, m, samples, rho_max)
    \/ \E fam \in Families, m \in Orders, samples \in SampleSet, rho_max \in RadiusSet :
          Solo(fam) /\ Evaluate(fam, m, samples, rho_max)
    \/ \E fam \in Families, coefs \in GrowMappings, samples \in SampleSet :
          Solo(fam) /\ last.op # "build" /\ Build(fam, coefs, samples)
    \/ \E fam \in Families : Solo(fam) /\ Nbytes(fam)
    \/ \E fam \in Families : Clear(fam)

SpecGrow == Init /\ [][GrowNext]_vars

\* ------------------------------------------------------------------ direct calls
\* the coordinate arrays passed to the recurrences
XArrays ==
    [1 .. XLen -> (0 - 1) .. XMax]
        \cup {Square(make_rho_phi_grid(samples, rho_max)) :
                 samples \in SampleSet, rho_max \in RadiusSet}

\* qbfs_recurrence_P(n, x) with every optional argument omitted
DirectP(n, x) ==
    \E r \in {qbfs_recurrence_P(n, x, None, None, None)} :
        /\ last' = [Called("direct_P", "", <<n, 0, 0>>, NewCache, r.v, "",
                            Len(r.ev), 0, << >>)
                      EXCEPT !.x = x, !.depth = r.d]
        /\ UNCHANGED <<caches, evP, evQ, gb, memo, computed>>

\* qbfs_recurrence_Q(n, x) with every optional argument omitted
DirectQ(n, x) ==
    \E r \in {qbfs_recurrence_Q(n, x, None, None, None, None, None, None, memo)} :
        /\ memo' = r.m
        /\ computed' = computed \cup SeqToSet(r.b)
        /\ last' = [Called("direct_Q", "", <<n, 0, 0>>, NewCache, r.v, "",
                            Len(r.evP) + Len(r.evQ), 0, r.b)
                      EXCEPT !.x = x, !.rerun = Rerun(r.b), !.depth = r.d]
        /\ UNCHANGED <<caches, evP, evQ, gb>>

RecNext ==
    \/ \E n \in Orders, x \in XArrays : DirectP(n, x)
    \/ \E n \in Orders, x \in XArrays : DirectQ(n, x)

SpecRec == Init /\ [][RecNext]_vars

\* ------------------------------------------------------------------ two grid keys
\* The Qbfs cache called for the same sample count with two values of rho_max.
KeyRadii == {1, 2}
\* the orders requested: those the three-term recurrence builds
KeyOrders == {m \in Orders : m >= 2}

KeysNext ==
    \/ \E samples \in SampleSet, rho_max \in KeyRadii :
          GetGrid("bfs", samples, rho_max)
    \/ \E m \in KeyOrders, samples \in SampleSet, rho_max \in KeyRadii :
          GetP("bfs", m, samples, rho_max)
    \/ \E m \in KeyOrders, samples \in SampleSet, rho_max \in KeyRadii :
          GetQ("bfs", m, samples, rho_max)

SpecKeys == Init /\ [][KeysNext]_vars

Spec == Init /\ [][Next]_vars

\* ------------------------------------------------------------------ claims
Getters == {"get_grid", "get_P", "get_Q", "evaluate"}
QGetters == {"get_Q", "evaluate"}
Returned == last.err = ""

\* C1: since the stores of a cache were last emptied, the P term and the Q
\* term of every key (order, samples, rho_max) have each been evaluated at most
\* once, the evaluations made inside the recurrence engines included.
C1_EvaluatedAtMostOnce ==
    \A fam \in Families :
        /\ \A key \in DOMAIN evP[fam] : evP[fam][key] <= 1
        /\ \A key \in DOMAIN evQ[fam] : evQ[fam][key] <= 1

\* C2: a get_Q that returns has stored the array it returns; a get_Q for a key
\* already in Qs returns the stored array, evaluates no recurrence, builds no
\* grid and leaves Qs, Ps and grids as they were.
C2_GetQIdempotent ==
    last.op = "get_Q" =>
        /\ Returned =>
              /\ last.key \in DOMAIN caches[last.fam].Qs
              /\ last.ret = caches[last.fam].Qs[last.key]
        /\ last.key \in DOMAIN last.pre.Qs =>
              /\ Returned
              /\ last.ret = last.pre.Qs[last.key]
              /\ last.nev = 0
              /\ last.ngb = 0
              /\ caches[last.fam] = last.pre

\* a second get_Q of an order built by the three-term recurrence
C2_Witness ==
    /\ last.op = "get_Q"
    /\ last.key[1] >= 2
    /\ last.key \in DOMAIN last.pre.Qs

\* C3: calling a cache object with a valid order and sample count never ends in
\* an error; it returns the Q array of that order, which is then stored in Qs.
C3_EvaluateReturnsQ ==
    last.op = "evaluate" =>
        /\ Returned
        /\ last.key \in DOMAIN caches[last.fam].Qs
        /\ last.ret = caches[last.fam].Qs[last.key]

\* C4: clear(), called directly or through the backend-change observers,
\* leaves Qs, Ps and grids empty; a getter that finds the stores empty and
\* returns has built the grid and evaluated the requested term in that call.
C4_ClearEmptiesAll ==
    /\ last.op = "clear" => caches[last.fam] = NewCache
    /\ last.op = "chbackend" => \A fam \in Families : caches[fam] = NewCache
    /\ (last.op \in Getters /\ last.pre = NewCache /\ Returned) =>
          /\ last.ngb = 1
          /\ KeyTail(last.key) \in DOMAIN caches[last.fam].grids
          /\ last.op = "get_P" => Count(evP[last.fam], last.key) = 1
          /\ last.op \in QGetters => Count(evQ[last.fam], last.key) = 1

\* a get_Q on stores emptied by a clear: g, h, f are answered from the memo
\* (they were computed before the clear) while the arrays are built anew
C4_Witness ==
    /\ last.op = "get_Q"
    /\ last.key[1] = 2
    /\ last.pre = NewCache
    /\ last.bodies = << >>
    /\ last.nev > 0

\* C5: when get_P(n) returns for n >= 2, Ps holds the orders n, n-1 and n-2 of
\* that grid; when get_Q(n) returns for n >= 2, Qs holds n, n-1 and n-2.
C5_LowerOrdersStored ==
    (last.op \in {"get_P", "get_Q"} /\ Returned /\ last.key[1] >= 2) =>
        \A d \in 0 .. 2 :
            LET k == make_key(last.key[1] - d, last.key[2], last.key[3])
            IN /\ last.op = "get_P" => k \in DOMAIN caches[last.fam].Ps
               /\ last.op = "get_Q" => k \in DOMAIN caches[last.fam].Qs

\* the footprint of every entry of the three stores, each counted once
SumStore(map) ==
    LET RECURSIVE T(_)
        T(S) == IF S = {} THEN 0
                ELSE LET k == CHOOSE k \in S : TRUE
                     IN Footprint(map[k]) + T(S \ {k})
    IN T(DOMAIN map)

\* C6: nbytes returns, without error, the sum of the footprints of all the
\* entries held in Qs, Ps and grids.
C6_NbytesIsTotal ==
    last.op = "nbytes" =>
        /\ Returned
        /\ last.ret.v[1] = (SumStore(caches[last.fam].Qs)
                              + SumStore(caches[last.fam].Ps))
                              + SumStore(caches[last.fam].grids)

\* ------------------------------------------------------------------ sag claims
Built == last.op = "build"
SomeNonZero(coefs) == \E i \in 1 .. Len(coefs) : coefs[i][2] # 0

\* An element of phase is zero when a window factor is zero.  It is known to
\* be nonzero when no window factor is zero and the sum is a single product
\* of a nonzero coefficient and a Q(0) or Q(1) element that is not zero.
WindowIsZero(e) == \E i \in 1 .. Len(e.win) : e.win[i] = 0
KnownNonZero(e) ==
    /\ ~WindowIsZero(e)
    /\ Len(e.acc) = 1
    /\ e.acc[1].c # 0
    /\ e.acc[1].t.op \in {"ones", "q1"}
    /\ e.acc[1].t.num # 0

\* rho ** 2 of the points of the grid a build worked on
RhoSquared == Square(make_rho_phi_grid(last.key[2], 1))

\* C7: after a build() of either sag builder with at least one nonzero
\* coefficient, no element of phase at a grid point with rho^2 = 0 or
\* rho^2 = 1 is known to be nonzero.
C7_ZeroAtCenterAndEdge ==
    (Built /\ Returned /\ SomeNonZero(last.coefs)) =>
        \A p \in DOMAIN RhoSquared :
            RhoSquared[p] \in {0, 1} => ~KnownNonZero(last.phase[p])

\* The build repeated on the cache as the last build found it, with another
\* coefficient mapping.
PreWorld ==
    [Qs |-> last.pre.Qs, Ps |-> last.pre.Ps, grids |-> last.pre.grids,
     evP |-> EmptyMap, evQ |-> EmptyMap, gb |-> EmptyMap,
     memo |-> EmptyMemo, bodies |-> << >>, err |-> "", at |-> 0, deep |-> 0]
Rebuilt(coefs) == Sag_build(last.fam, PreWorld, coefs, last.key[2])

\* the outcome B is the outcome of the last build: phase, cache requests,
\* error and cache contents
SameAsLast(B) ==
    /\ B.phase = last.phase
    /\ B.requests = last.requests
    /\ B.w.err = last.err
    /\ [Qs |-> B.w.Qs, Ps |-> B.w.Ps, grids |-> B.w.grids] = caches[last.fam]

Remove(coefs, i) == SubSeq(coefs, 1, i - 1) \o SubSeq(coefs, i + 1, Len(coefs))

\* C8: a build() makes no cache call for an order whose coefficient is 0, and
\* its phase, its cache requests and the cache contents it leaves are those of
\* the build of the mapping with that key removed.
C8_ZeroCoefSkipped ==
    Built =>
        \A i \in 1 .. Len(last.coefs) :
            last.coefs[i][2] = 0 =>
                /\ last.coefs[i][1] \notin SeqToSet(last.requests)
                /\ SameAsLast(Rebuilt(Remove(last.coefs, i)))
                /\ Rebuilt(Remove(last.coefs, i)) = Rebuilt(last.coefs)

\* a build with a zero coefficient on an order the cache does not hold, next
\* to a nonzero coefficient
C8_Witness ==
    /\ Built
    /\ Returned
    /\ SomeNonZero(last.coefs)
    /\ \E i \in 1 .. Len(last.coefs) :
          /\ last.coefs[i][2] = 0
          /\ make_key(last.coefs[i][1], last.key[2], 1) \notin DOMAIN last.pre.Qs
          /\ make_key(last.coefs[i][1], last.key[2], 1)
                \notin DOMAIN caches[last.fam].Qs

\* the same mapping with its keys inserted in any other order
Reorderings(coefs) ==
    {q \in [1 .. Len(coefs) -> SeqToSet(coefs)] : SeqToSet(q) = SeqToSet(coefs)}

\* C9: a build() requests terms from the cache in strictly ascending order,
\* and the build of the same mapping with its keys inserted in any other
\* order makes the same requests and evaluations and ends with the same
\* phase (the same products added in the same order) and cache contents.
C9_AscendingWhateverInsertion ==
    Built =>
        /\ \A i, j \in 1 .. Len(last.requests) :
              i < j => last.requests[i] < last.requests[j]
        /\ \A q \in Reorderings(last.coefs) :
              /\ SameAsLast(Rebuilt(q))
              /\ Rebuilt(q) = Rebuilt(last.coefs)

\* a build of two nonzero coefficients whose keys were inserted in
\* descending order
C9_Witness ==
    /\ Built
    /\ Returned
    /\ Len(last.coefs) = 2
    /\ last.coefs[1][1] > last.coefs[2][1]
    /\ Len(last.requests) = 2

\* ------------------------------------------------------------------ memo claims
\* C10: a call of g, h or f, and every call it makes of them, executes the
\* body of a generator only for an index whose body has not been executed
\* before in the process.
C10_NeverRecomputed == last.rerun = {}

\* ------------------------------------------------------------------ key claims
EmptyWorld ==
    [Qs |-> EmptyMap, Ps |-> EmptyMap, grids |-> EmptyMap,
     evP |-> EmptyMap, evQ |-> EmptyMap, gb |-> EmptyMap,
     memo |-> EmptyMemo, bodies |-> << >>, err |-> "", at |-> 0, deep |-> 0]

\* every entry of the store before under another grid key is there after,
\* unchanged, and every entry added is under the grid key of the call
OtherKeysKept(before, after, own, tail(_)) ==
    /\ \A k \in DOMAIN before :
          tail(k) # own => (k \in DOMAIN after /\ after[k] = before[k])
    /\ \A k \in (DOMAIN after) \ (DOMAIN before) : tail(k) = own

\* C11: a get_grid, get_P or get_Q of the Qbfs cache returns, leaves every
\* entry under another (samples, rho_max) as it was, adds entries under its
\* own (samples, rho_max) only, and holds under its own key the entry that
\* the same call leaves in an empty cache.
C11_KeysAreExact ==
    (last.fam = "bfs" /\ last.op \in {"get_grid", "get_P", "get_Q"}) =>
        LET own == <<last.key[2], last.key[3]>>
            C == caches[last.fam]
            Id(k) == k
        IN /\ Returned
           /\ OtherKeysKept(last.pre.Qs, C.Qs, own, KeyTail)
           /\ OtherKeysKept(last.pre.Ps, C.Ps, own, KeyTail)
           /\ OtherKeysKept(last.pre.grids, C.grids, own, Id)
           /\ own \in DOMAIN C.grids
           /\ C.grids[own] = QBFS_get_grid(EmptyWorld, own[1], own[2]).ret
           /\ last.op = "get_grid" => last.ret = C.grids[own]
           /\ last.op = "get_P" =>
                 /\ last.key \in DOMAIN C.Ps
                 /\ C.Ps[last.key]
                      = QBFS_get_PBFS(EmptyWorld, last.key[1], own[1], own[2]).ret
           /\ last.op = "get_Q" =>
                 /\ last.key \in DOMAIN C.Qs
                 /\ C.Qs[last.key]
                      = QBFS_get_QBFS(EmptyWorld, last.key[1], own[1], own[2]).ret

\* a get_Q for rho_max = 2 of an order the cache holds for rho_max = 1: the
\* call misses and the cache then holds both, with different arrays
C11_Witness ==
    /\ last.op = "get_Q"
    /\ last.key[1] = 2
    /\ last.key[3] = 2
    /\ <<2, last.key[2], 1>> \in DOMAIN last.pre.Qs
    /\ last.key \notin DOMAIN last.pre.Qs
    /\ last.nev > 0
    /\ caches[last.fam].Qs[last.key] # caches[last.fam].Qs[<<2, last.key[2], 1>>]

\* ------------------------------------------------------------------ recurrence claims
\* The chained evaluation: every order from the lower orders already
\* computed, as a cache that holds them supplies them.
RECURSIVE PChain(_, _)
PChain(n, x) ==
    IF n < 2 THEN qbfs_recurrence_P(n, x, None, None, None).v
    ELSE qbfs_recurrence_P(n, x, PChain(n - 1, x), PChain(n - 2, x), None).v

RECURSIVE QChain(_, _)
QChain(n, x) ==
    IF n < 2
    THEN qbfs_recurrence_Q(n, x, None, None, None, None, None, None, EmptyMemo).v
    ELSE qbfs_recurrence_Q(n, x, PChain(n, x), PChain(n - 1, x), PChain(n - 2, x),
                           QChain(n - 1, x), QChain(n - 2, x), None, EmptyMemo).v

\* C12: for n >= 2, qbfs_recurrence_Q(n, x) with every optional argument
\* omitted returns what the chained evaluation returns: every Q(k) it computes
\* is built from P(k), Q(k-1) and Q(k-2).
C12_DirectQIsChained ==
    (last.op = "direct_Q" /\ last.key[1] >= 2) =>
        last.ret = QChain(last.key[1], last.x)

\* P(0) = 2, P(1) = 6 - 8x, P(n) = (2 - 4x) P(n-1) - P(n-2) at one coordinate
RECURSIVE PFormula(_, _)
PFormula(n, xv) ==
    IF n = 0 THEN 2
    ELSE IF n = 1 THEN 6 - (8 * xv)
    ELSE ((2 - (4 * xv)) * PFormula(n - 1, xv)) - PFormula(n - 2, xv)

\* the grids of the Qbfs cache that are the array x
GridsOf(x) ==
    {g \in SampleSet \X RadiusSet : Square(make_rho_phi_grid(g[1], g[2])) = x}

\* C13: for n >= 2, qbfs_recurrence_P(n, x) with no optional argument is the
\* three-term formula at every coordinate, equals the evaluation chained from
\* the supplied P(n-1) and P(n-2), and, when x is a grid of the cache, equals
\* the array get_P stores for order n.
C13_DirectPIsChained ==
    (last.op = "direct_P" /\ last.key[1] >= 2) =>
        /\ \A p \in DOMAIN last.x :
              At(last.ret, p) = PFormula(last.key[1], last.x[p])
        /\ last.ret = PChain(last.key[1], last.x)
        /\ \A g \in GridsOf(last.x) :
              \E r \in {QBFS_get_PBFS(EmptyWorld, last.key[1], g[1], g[2])} :
                  /\ r.ret = last.ret
                  /\ r.w.Ps[make_key(last.key[1], g[1], g[2])] = last.ret

\* a direct P of the highest order on a grid of the cache, where the cache
\* chains get_P and the direct call recurses
C13_Witness ==
    /\ last.op = "direct_P"
    /\ last.key[1] = MaxOrder
    /\ last.key[1] > 2
    /\ last.nev > 1
    /\ GridsOf(last.x) # {}

\* ------------------------------------------------------------------ growth claims
\* every entry of the store before is in the store after, with its value
Kept(before, after) ==
    \A k \in DOMAIN before : k \in DOMAIN after /\ after[k] = before[k]

\* C14: a get_grid, get_P, get_Q, evaluate or sag build(), whether it returns
\* or ends in an error, leaves every entry of Qs, Ps and grids in place with
\* its value; an operation that is neither one of these nor clear() leaves
\* the three stores as they were.
C14_GrowOnly ==
    /\ last.op \in Getters \cup {"build"} =>
          /\ Kept(last.pre.Qs, caches[last.fam].Qs)
          /\ Kept(last.pre.Ps, caches[last.fam].Ps)
          /\ Kept(last.pre.grids, caches[last.fam].grids)
    /\ last.op = "nbytes" => caches[last.fam] = last.pre

\* a build on a cache that holds Q arrays already and gets more from it
C14_Witness ==
    /\ Built
    /\ last.pre.Qs # EmptyMap
    /\ (DOMAIN caches[last.fam].Qs) \ (DOMAIN last.pre.Qs) # {}
    /\ (DOMAIN caches[last.fam].Ps) \ (DOMAIN last.pre.Ps) # {}

\* ------------------------------------------------------------------ first-call claims
GeneratorCall == last.op \in {"g", "h", "f"}
\* the call found nothing computed: all that is computed, it computed
Cold == GeneratorCall /\ computed = SeqToSet(last.bodies)

\* C15: a call g(n), h(n) or f(n) made on empty memo tables returns having
\* executed no body twice and only bodies of indices 0 .. n: at most one of
\* each of g(k), h(k), f(k) for k <= n.
C15_LinearFromEmpty ==
    Cold =>
        /\ Returned
        /\ last.rerun = {}
        /\ \A i, j \in 1 .. Len(last.bodies) :
              i # j => last.bodies[i] # last.bodies[j]
        /\ \A i \in 1 .. Len(last.bodies) :
              /\ last.bodies[i][2] >= 0
              /\ last.bodies[i][2] <= last.key[1]
        /\ Len(last.bodies) <= 3 * (last.key[1] + 1)
        /\ <<last.op, last.key[1]>> \in SeqToSet(last.bodies)

\* a first call g(n) of the highest index: it runs the bodies of g, h and f
\* below it, each lower g, h, f being asked for more than once on the way
C15_Witness ==
    /\ Cold
    /\ last.op = "g"
    /\ last.key[1] = MemoStride
    /\ \A k \in 0 .. (MemoStride - 1) :
          {<<"g", k>>, <<"h", k>>, <<"f", k>>} \subseteq SeqToSet(last.bodies)

\* ------------------------------------------------------------------ depth claims
\* the orders of the keys of a map
OrdersOf(map) == {k[1] : k \in DOMAIN map}

\* C16: a get_P or get_Q of the Qbfs cache for order m returns; the getter and
\* recurrence calls it makes nest at most m + 3 deep; the terms it evaluates
\* or stores have orders in 0 .. m, and no term the cache ever evaluated or
\* holds has an order below 0.
C16_DepthBoundedByOrder ==
    (last.fam = "bfs" /\ last.op \in {"get_P", "get_Q"}) =>
        LET C == caches[last.fam]
            m == last.key[1]
        IN /\ Returned
           /\ last.depth >= 1
           /\ last.depth <= m + 3
           /\ \A o \in OrdersOf(evP[last.fam]) \cup OrdersOf(evQ[last.fam])
                       \cup OrdersOf(C.Ps) \cup OrdersOf(C.Qs) : o >= 0
           /\ \A o \in (OrdersOf(C.Ps) \ OrdersOf(last.pre.Ps))
                       \cup (OrdersOf(C.Qs) \ OrdersOf(last.pre.Qs)) : o <= m

\* a get_Q of the highest order on an empty cache: the deepest chain of
\* getters, down to the recurrence for P(2) and its call for P(1)
C16_Witness ==
    /\ last.fam = "bfs"
    /\ last.op = "get_Q"
    /\ last.key[1] = MaxOrder
    /\ last.pre = NewCache
    /\ last.depth = last.key[1] + 2

\* ------------------------------------------------------------------ consistency claims
\* C17: in both caches every key of Qs is a key of Ps, the grid key of every
\* key of Ps and Qs is a key of grids, and nbytes never ends in a missed
\* lookup.
C17_StoresConsistent ==
    /\ \A fam \in Families :
          /\ (DOMAIN caches[fam].Qs) \subseteq (DOMAIN caches[fam].Ps)
          /\ \A k \in (DOMAIN caches[fam].Ps) \cup (DOMAIN caches[fam].Qs) :
                KeyTail(k) \in DOMAIN caches[fam].grids
    /\ last.op = "nbytes" => last.err # "KeyError"

\* a get_Q of the Qcon cache that ended in an error after it had stored the
\* P term and the grid and before it stored a Q term
C17_Witness ==
    /\ last.op = "get_Q"
    /\ last.err # ""
    /\ last.key \in DOMAIN caches[last.fam].Ps
    /\ last.key \notin DOMAIN caches[last.fam].Qs
    /\ last.key \notin DOMAIN last.pre.Ps

\* ------------------------------------------------------------------ notification claims
\* the generator calls qbfs_recurrence_Q makes for order m
Needs(m) == {<<"g", m - 1>>, <<"h", m - 2>>, <<"f", m>>}

\* C18: a clear() or a backend-change notification leaves the memo tables of
\* g, h and f as they were; a Q array of order m >= 2 built afterwards runs
\* the body of none of g(m-1), h(m-2), f(m) that had been computed before.
C18_ClearKeepsMemo ==
    [][/\ last'.op \in {"clear", "chbackend"} =>
             (memo' = memo /\ computed' = computed)
       /\ (last'.op \in QGetters /\ last'.key[1] >= 2) =>
             (Needs(last'.key[1]) \cap computed) \cap SeqToSet(last'.bodies) = {}
      ]_vars

\* an evaluate on stores emptied by a clear or a notification: the Q array is
\* built again while g, h, f come from the memo filled before
C18_Witness ==
    /\ last.op = "evaluate"
    /\ last.fam = "bfs"
    /\ last.key[1] >= 2
    /\ last.pre = NewCache
    /\ Returned
    /\ Count(evQ[last.fam], last.key) = 1
    /\ last.bodies = << >>
    /\ Needs(last.key[1]) \subseteq computed

====
